---- MODULE Spec2Model ----
(***************************************************************************)
(* Model of the highlightnow range-highlighting engine: the Highlighter    *)
(* class (src/src/highlighter.ts, second definition, lines 74-273), the    *)
(* XPath addressor and HighlightStorage (src/unnamed/part_000) and the     *)
(* event handlers of the content script (src/src/content.ts, second        *)
(* definition, lines 82-346) with the toolbar, the clear-all button and    *)
(* the exit overlay they drive (src/src/toolbar.ts).                       *)
(*                                                                         *)
(* The document is a tree value.  A node is a record with the same fields  *)
(* for every node type; a node is identified by its path, the sequence of  *)
(* 1-based child positions from the Document node.  Text is a sequence of  *)
(* one-character strings.  An XPath string is a sequence of tokens: the    *)
(* "/" token, or a step token name[idx] (idx = 0: no predicate).           *)
(*                                                                         *)
(* DOM primitives (Range.surroundContents, Range.extractContents,          *)
(* Range.insertNode, Node.normalize, Document.evaluate) follow the DOM     *)
(* and XPath 1.0 standards; Document.evaluate sees every DOM Text node     *)
(* (empty ones included) as a text() node, as browser engines do.          *)
(***************************************************************************)
EXTENDS Integers, Sequences, FiniteSets, TLC

VARIABLES doc, orig, highlightIdCounter, stored, last, ops, restores, now,
          isHighlightingEnabled, currentRange, lastUsedColor, toolbarIsVisible,
          exitOverlayHidden, clearButtonHidden

\* The state of the content script beside the highlighter and the storage:
\* src/src/content.ts:92-94, Toolbar.isVisible (src/src/toolbar.ts:19) and
\* the st-hidden class of the exit overlay and of the clear-all button
\* (src/src/toolbar.ts:131, 113).
script == <<isHighlightingEnabled, currentRange, lastUsedColor, toolbarIsVisible,
            exitOverlayHidden, clearButtonHidden>>

vars == <<doc, orig, highlightIdCounter, stored, last, ops, restores, now, script>>

\* ------------------------------------------------------------------ bounds
\* Number of operations explored in one session.
MaxOps == 2
\* Number of restoreHighlight calls among them.
MaxRestores == 1
\* Largest offset / length field tried in a record handed to restoreHighlight.
MaxField == 2
\* records in a stored batch
MaxBatch == 2
\* Number of events the content script handles in one session.
MaxEvents == 3

\* ------------------------------------------------------------- sequences
Splice(s, i, j, repl) == SubSeq(s, 1, i - 1) \o repl \o SubSeq(s, j + 1, Len(s))

RECURSIVE Flatten(_)
Flatten(ss) == IF ss = <<>> THEN <<>> ELSE Head(ss) \o Flatten(Tail(ss))

IsPrefix(p, q) == Len(p) <= Len(q) /\ SubSeq(q, 1, Len(p)) = p

\* Document order of two nodes given by their paths (an ancestor comes first).
RECURSIVE PathLeq(_, _)
PathLeq(p, q) ==
  IF p = <<>> THEN TRUE
  ELSE IF q = <<>> THEN FALSE
  ELSE IF Head(p) # Head(q) THEN Head(p) < Head(q)
  ELSE PathLeq(Tail(p), Tail(q))

\* ------------------------------------------------------------------ nodes
NoColor == [form |-> "none", v |-> <<>>]

Text(d) ==
  [kind |-> "text", nid |-> 0, tag |-> "", hl |-> FALSE, hid |-> -1, color |-> NoColor,
   data |-> d, kids |-> <<>>]

Elem(t, ks) ==
  [kind |-> "elem", nid |-> 0, tag |-> t, hl |-> FALSE, hid |-> -1, color |-> NoColor,
   data |-> <<>>, kids |-> ks]

DocumentNode(ks) ==
  [kind |-> "doc", nid |-> 0, tag |-> "", hl |-> FALSE, hid |-> -1, color |-> NoColor,
   data |-> <<>>, kids |-> ks]

DocumentType ==
  [kind |-> "doctype", nid |-> 0, tag |-> "", hl |-> FALSE, hid |-> -1, color |-> NoColor,
   data |-> <<>>, kids |-> <<>>]

RECURSIVE NodeAt(_, _)
NodeAt(n, p) == IF p = <<>> THEN n ELSE NodeAt(n.kids[Head(p)], Tail(p))

\* The paths of the subtree of n in document order (preorder).
RECURSIVE Preorder(_, _)
RECURSIVE PreorderFrom(_, _, _)
Preorder(n, prefix) == <<prefix>> \o PreorderFrom(n.kids, prefix, 1)
\* ... of the children ks of the node at prefix, from child i on
PreorderFrom(ks, prefix, i) ==
  IF i > Len(ks) THEN <<>>
  ELSE Preorder(ks[i], Append(prefix, i)) \o PreorderFrom(ks, prefix, i + 1)

AllPathSeq(d) == Preorder(d, <<>>)
SeqToSet(s) == { s[i] : i \in DOMAIN s }
AllPaths(d) == SeqToSet(AllPathSeq(d))

\* The tree with the node at path p replaced by the sequence of nodes repl.
RECURSIVE ReplaceAt(_, _, _)
ReplaceAt(n, p, repl) ==
  IF Len(p) = 1
  THEN [n EXCEPT !.kids = Splice(n.kids, p[1], p[1], repl)]
  ELSE [n EXCEPT !.kids[Head(p)] = ReplaceAt(n.kids[Head(p)], Tail(p), repl)]

\* Node.textContent
RECURSIVE textContent(_)
RECURSIVE textContentOf(_)
textContent(n) == IF n.kind = "text" THEN n.data ELSE textContentOf(n.kids)
\* ... of a list of nodes
textContentOf(ks) ==
  IF ks = <<>> THEN <<>> ELSE textContent(Head(ks)) \o textContentOf(Tail(ks))

ParentOf(p) == SubSeq(p, 1, Len(p) - 1)
IndexOf(p) == p[Len(p)]

\* The Text nodes of the document, in document order.
TextPathSeq(d) ==
  LET IsText(p) == NodeAt(d, p).kind = "text"
  IN SelectSeq(AllPathSeq(d), IsText)

TextPaths(d) == SeqToSet(TextPathSeq(d))
ElementPaths(d) == { p \in AllPaths(d) : NodeAt(d, p).kind = "elem" }

\* document.querySelectorAll("." + HIGHLIGHT_CLASS), in document order
querySelectorAllHighlights(d) ==
  LET IsHighlight(p) == NodeAt(d, p).hl
  IN SelectSeq(AllPathSeq(d), IsHighlight)

MarkerPaths(d) == SeqToSet(querySelectorAllHighlights(d))

\* ------------------------------------------------------------------ XPath
Slash == [t |-> "/", name |-> "", idx |-> 0]
Step(n, i) == [t |-> "step", name |-> n, idx |-> i]

\* Reference to a node that has no parent and is not the Document.
Detached == <<0>>
\* "No node": the null of findNodeByXPath / singleNodeValue.
NoNode == <<-1>>

\* getXPath(node), src/unnamed/part_000:99-121.  siblings.indexOf(node) + 1
\* is the node's position among ALL child nodes of its parent, which is the
\* last component of its path.
RECURSIVE getXPath(_, _)
getXPath(d, p) ==
  IF p = <<>> THEN <<Slash>>
  ELSE IF p = Detached THEN <<>>
  ELSE LET parentPath == getXPath(d, ParentOf(p))
           index == IndexOf(p)
           node == NodeAt(d, p)
       IN IF node.kind = "elem" THEN parentPath \o <<Slash, Step(node.tag, index)>>
          ELSE IF node.kind = "text" THEN parentPath \o <<Slash, Step("text()", index)>>
          ELSE parentPath

\* XPath 1.0 node test of a step against a child node.
NodeTest(step, n) ==
  IF step.name = "text()" THEN n.kind = "text"
  ELSE n.kind = "elem" /\ n.tag = step.name

\* child::name[idx] from one context node: the idx-th child that passes
\* the node test (every such child when the step has no predicate).
MatchingKids(n, step) ==
  LET Match(i) == NodeTest(step, n.kids[i])
  IN SelectSeq([i \in DOMAIN n.kids |-> i], Match)

Predicate(c, step, m) ==
  IF step.idx = 0 THEN { Append(c, m[k]) : k \in DOMAIN m }
  ELSE IF step.idx \in DOMAIN m THEN { Append(c, m[step.idx]) }
  ELSE {}

StepFrom(d, c, step) == Predicate(c, step, MatchingKids(NodeAt(d, c), step))

ApplyStep(d, ctx, step) == UNION { StepFrom(d, c, step) : c \in ctx }

\* descendant-or-self::node()
DescOrSelf(d, ctx) == { q \in AllPaths(d) : \E c \in ctx : IsPrefix(c, q) }

EvalError == [ok |-> FALSE, nodes |-> {}]

\* ("/" | "//") Step, repeated, from a context node-set
RECURSIVE EvalSteps(_, _, _)
EvalSteps(d, ctx, toks) ==
  IF toks = <<>> THEN [ok |-> TRUE, nodes |-> ctx]
  ELSE IF toks[1].t # "/" \/ Len(toks) < 2 THEN EvalError
  ELSE IF toks[2].t = "step"
       THEN EvalSteps(d, ApplyStep(d, ctx, toks[2]), SubSeq(toks, 3, Len(toks)))
  ELSE IF Len(toks) >= 3 /\ toks[3].t = "step"
       THEN EvalSteps(d, ApplyStep(d, DescOrSelf(d, ctx), toks[3]),
                      SubSeq(toks, 4, Len(toks)))
  ELSE EvalError

\* doc.evaluate(xpath, doc, ...): the empty string is a syntax error, "/" is
\* the Document, a leading "//" is /descendant-or-self::node()/, and a path
\* that starts with a step is relative to the context node, the Document.
evaluate(xpath, d) ==
  IF xpath = <<>> THEN EvalError
  ELSE IF xpath = <<Slash>> THEN [ok |-> TRUE, nodes |-> {<<>>}]
  ELSE IF xpath[1].t = "step" THEN EvalSteps(d, {<<>>}, <<Slash>> \o xpath)
  ELSE EvalSteps(d, {<<>>}, xpath)

\* findNodeByXPath: FIRST_ORDERED_NODE_TYPE, null on an exception
\* (src/unnamed/part_000:126-140 and src/src/highlighter.ts:174-187).
singleNodeValue(r) ==
  IF ~r.ok \/ r.nodes = {} THEN NoNode
  ELSE CHOOSE p \in r.nodes : \A q \in r.nodes : PathLeq(p, q)

\* A lookup that gives the first Text node of the document when the path
\* leads to no Text node: C24 tells it from the real one.
findNodeOrFirstText(xpath, d) ==
  LET p == singleNodeValue(evaluate(xpath, d))
  IN IF p # NoNode /\ NodeAt(d, p).kind = "text" THEN p
     ELSE IF TextPathSeq(d) = <<>> THEN NoNode
     ELSE Head(TextPathSeq(d))

findNodeByXPath(xpath, d) == singleNodeValue(evaluate(xpath, d))

\* --------------------------------------------------------------- fixtures
\* <html><body><p>abc</p></body></html> through an HTML parser, which
\* supplies the <head> (the JSDOM fixture of the unit tests).
DocHead == DocumentNode(<<Elem("html", <<Elem("head", <<>>), Elem("body", <<
              Elem("p", <<Text(<<"a", "b", "c">>)>>)>>)>>)>>)

\* <html><body><p>a<b>b</b></p></body></html> as an XML document (no
\* <head>): a paragraph with mixed text and element children.
DocMixed == DocumentNode(<<Elem("html", <<Elem("body", <<
              Elem("p", <<Text(<<"a">>), Elem("b", <<Text(<<"b">>)>>)>>)>>)>>)>>)

Fixtures == {DocHead, DocMixed}

\* <!DOCTYPE html><html><head></head><body><p>abc</p></body></html>
DocTyped == DocumentNode(<<DocumentType>> \o DocHead.kids)

\* ----------------------------------------------------------------- colors
HexColor(ds) == [form |-> "hex", v |-> ds]
RgbColor(r, g, b) == [form |-> "rgb", v |-> <<r, g, b>>]

\* HighlightColor / COLORS (src/src/highlighter.ts:76-82, src/src/content.ts:241):
\* "#fff7a5", "#c2ffd2", "#c9e4ff", "#ffd3f8", "#e0c9ff", "#ffe0b5"
COLORS == << HexColor(<<15, 15, 15, 7, 10, 5>>), HexColor(<<12, 2, 15, 15, 13, 2>>),
             HexColor(<<12, 9, 14, 4, 15, 15>>), HexColor(<<15, 15, 13, 3, 15, 8>>),
             HexColor(<<14, 0, 12, 9, 15, 15>>), HexColor(<<15, 15, 14, 0, 11, 5>>) >>

\* The colors the model passes as arguments.
UsedColors == {COLORS[1], COLORS[5]}

\* Reading el.style.backgroundColor after it was set to a hex color: the
\* CSSOM serializes a color as rgb(r, g, b).
styleBackgroundColor(c) ==
  IF c.form = "hex"
  THEN RgbColor(16 * c.v[1] + c.v[2], 16 * c.v[3] + c.v[4], 16 * c.v[5] + c.v[6])
  ELSE c

\* Number.prototype.toString(16) for 0..255: no leading zero
toString16(n) == IF n < 16 THEN <<n>> ELSE <<n \div 16, n % 16>>
\* A padStart that adds nothing: C14 tells it from the real one.
padStartNone(s) == s
\* String.prototype.padStart(2, "0")
padStart2(s) == IF Len(s) < 2 THEN <<0>> \o s ELSE s

\* Highlighter.rgbToHex, src/src/highlighter.ts:259-272
rgbToHex(c) ==
  IF c.form = "hex" THEN c
  ELSE IF c.form # "rgb" THEN c
  ELSE HexColor(padStart2(toString16(c.v[1])) \o padStart2(toString16(c.v[2]))
                  \o padStart2(toString16(c.v[3])))

\* A span.st-highlight with data-highlight-id = id and the given inline color.
Wrapper(id, color, ks) ==
  [kind |-> "elem", nid |-> 0, tag |-> "span", hl |-> TRUE, hid |-> id,
   color |-> styleBackgroundColor(color), data |-> <<>>, kids |-> ks]

\* ----------------------------------------------------------------- ranges
\* A range is [sp, so, ep, eo]: boundary points (node path, offset); the
\* boundary nodes of the ranges of the model are Text nodes, but for the
\* ranges that start at the Document node (sp = <<>>, so a child offset).
Range(sp, so, ep, eo) == [sp |-> sp, so |-> so, ep |-> ep, eo |-> eo]

collapsed(r) == r.sp = r.ep /\ r.so = r.eo

\* Every range of the document whose boundary points lie in Text nodes:
\* the start is not after the end in document order.
RangesFrom(d, sp, so, ep) ==
  { Range(sp, so, ep, eo) :
      eo \in (IF sp = ep THEN so ELSE 0)..Len(NodeAt(d, ep).data) }

RangesOf(d) ==
  LET ts == TextPaths(d)
  IN UNION { UNION { RangesFrom(d, pq[1], so, pq[2]) :
                       so \in 0..Len(NodeAt(d, pq[1]).data) } :
             pq \in { x \in ts \X ts : PathLeq(x[1], x[2]) } }

\* Range.toString(): the text of the range
rangeToString(d, r) ==
  IF r.sp = r.ep THEN SubSeq(NodeAt(d, r.sp).data, r.so + 1, r.eo)
  ELSE LET Inside(t) == t # r.sp /\ t # r.ep /\ PathLeq(r.sp, t) /\ PathLeq(t, r.ep)
           between == SelectSeq(TextPathSeq(d), Inside)
           sd == NodeAt(d, r.sp).data
       IN SubSeq(sd, r.so + 1, Len(sd))
            \o Flatten([i \in DOMAIN between |-> NodeAt(d, between[i]).data])
            \o SubSeq(NodeAt(d, r.ep).data, 1, r.eo)

\* Every range from a boundary point of the Document node to a boundary
\* point in a Text node (as after selection.setBaseAndExtent(document, so,
\* text, eo)).
DocumentRanges(d) ==
  UNION { { Range(<<>>, so, ep, eo) : so \in 0..(ep[1] - 1), eo \in 0..Len(NodeAt(d, ep).data) } :
          ep \in TextPaths(d) }

RECURSIVE CommonPrefix(_, _)
CommonPrefix(p, q) ==
  IF p = <<>> \/ q = <<>> \/ Head(p) # Head(q) THEN <<>>
  ELSE <<Head(p)>> \o CommonPrefix(Tail(p), Tail(q))

SetKids(d, p, ks) ==
  IF p = <<>> THEN [d EXCEPT !.kids = ks]
  ELSE ReplaceAt(d, p, <<[NodeAt(d, p) EXCEPT !.kids = ks]>>)

\* "Extract" of the DOM standard for the sub-range from the boundary point
\* (node at rp below n, offset so) to the end of n: what stays in the tree
\* and the (partial) clone that goes to the fragment.
RECURSIVE ExtractRight(_, _, _)
ExtractRight(n, rp, so) ==
  IF rp = <<>>
  THEN [keep |-> [n EXCEPT !.data = SubSeq(n.data, 1, so)],
        frag |-> [n EXCEPT !.data = SubSeq(n.data, so + 1, Len(n.data))]]
  ELSE LET k == Head(rp)
           sub == ExtractRight(n.kids[k], Tail(rp), so)
       IN [keep |-> [n EXCEPT !.kids = SubSeq(n.kids, 1, k - 1) \o <<sub.keep>>],
           frag |-> [n EXCEPT !.kids = <<sub.frag>> \o SubSeq(n.kids, k + 1, Len(n.kids))]]

\* The same from the start of n to the boundary point (node at rp, offset eo).
RECURSIVE ExtractLeft(_, _, _)
ExtractLeft(n, rp, eo) ==
  IF rp = <<>>
  THEN [keep |-> [n EXCEPT !.data = SubSeq(n.data, eo + 1, Len(n.data))],
        frag |-> [n EXCEPT !.data = SubSeq(n.data, 1, eo)]]
  ELSE LET k == Head(rp)
           sub == ExtractLeft(n.kids[k], Tail(rp), eo)
       IN [keep |-> [n EXCEPT !.kids = <<sub.keep>> \o SubSeq(n.kids, k + 1, Len(n.kids))],
           frag |-> [n EXCEPT !.kids = SubSeq(n.kids, 1, k - 1) \o <<sub.frag>>]]

\* Range.extractContents() throws HierarchyRequestError, before it changes
\* anything, when a doctype is contained in the range: a child of the
\* Document between the start offset and the child that holds the end.
extractThrows(d, r) ==
  /\ r.sp = <<>>
  /\ \E k \in (r.so + 1)..(r.ep[1] - 1) : d.kids[k].kind = "doctype"

\* Range.extractContents(): the document without the contents of the range,
\* the fragment's children, and the boundary point the range collapses to.
\* From a start at the Document node the child that holds the end is
\* partially contained and the children before it are contained.
extractContents(d, r) ==
  IF collapsed(r) THEN [doc |-> d, frag |-> <<>>, node |-> r.sp, offset |-> r.so]
  ELSE IF r.sp = r.ep
  THEN LET n == NodeAt(d, r.sp)
       IN [doc |-> ReplaceAt(d, r.sp,
                     <<[n EXCEPT !.data = SubSeq(n.data, 1, r.so)
                                            \o SubSeq(n.data, r.eo + 1, Len(n.data))]>>),
           frag |-> <<[n EXCEPT !.data = SubSeq(n.data, r.so + 1, r.eo)]>>,
           node |-> r.sp, offset |-> r.so]
  ELSE IF r.sp = <<>>
  THEN LET j == r.ep[1]
           lastc == ExtractLeft(d.kids[j], Tail(r.ep), r.eo)
       IN [doc |-> [d EXCEPT !.kids = SubSeq(d.kids, 1, r.so) \o <<lastc.keep>>
                                        \o SubSeq(d.kids, j + 1, Len(d.kids))],
           frag |-> SubSeq(d.kids, r.so + 1, j - 1) \o <<lastc.frag>>,
           node |-> <<>>, offset |-> r.so]
  ELSE LET cp == CommonPrefix(r.sp, r.ep)
           c == NodeAt(d, cp)
           i == r.sp[Len(cp) + 1]
           j == r.ep[Len(cp) + 1]
           first == ExtractRight(c.kids[i], SubSeq(r.sp, Len(cp) + 2, Len(r.sp)), r.so)
           lastc == ExtractLeft(c.kids[j], SubSeq(r.ep, Len(cp) + 2, Len(r.ep)), r.eo)
       IN [doc |-> SetKids(d, cp, SubSeq(c.kids, 1, i - 1) \o <<first.keep, lastc.keep>>
                                    \o SubSeq(c.kids, j + 1, Len(c.kids))),
           frag |-> <<first.frag>> \o SubSeq(c.kids, i + 1, j - 1) \o <<lastc.frag>>,
           node |-> cp, offset |-> i]

\* Range.insertNode(node) for a range collapsed at (p, offset): a Text
\* start node is split at the offset (either half may be empty) and the
\* node goes between the halves; otherwise it goes before child offset.
insertNode(d, p, offset, node) ==
  LET n == NodeAt(d, p)
  IN IF n.kind = "text"
     THEN ReplaceAt(d, p, << [n EXCEPT !.data = SubSeq(n.data, 1, offset)], node,
                             [n EXCEPT !.data = SubSeq(n.data, offset + 1, Len(n.data))] >>)
     ELSE SetKids(d, p, Splice(n.kids, offset + 1, offset, <<node>>))

\* Range.insertNode(element) throws HierarchyRequestError (pre-insert
\* validity) when the node it inserts into is a Document that has an
\* element child, or the child it inserts before is a doctype or has a
\* doctype after it.
insertThrows(d, p, offset) ==
  LET n == NodeAt(d, p)
  IN /\ n.kind = "doc"
     /\ \/ \E k \in DOMAIN n.kids : n.kids[k].kind = "elem"
        \/ \E k \in (offset + 1)..Len(n.kids) : n.kids[k].kind = "doctype"

\* Range.surroundContents throws InvalidStateError when a non-Text node is
\* partially contained in the range: with Text boundary nodes, when the two
\* boundary nodes differ and do not have the same parent.
surroundThrows(r) == r.sp # r.ep /\ ParentOf(r.sp) # ParentOf(r.ep)

\* The wrapper, holding what it held and the extracted fragment, inserted
\* at the boundary point the range collapsed to.
insertFilled(x, wrapper) ==
  insertNode(x.doc, x.node, x.offset, [wrapper EXCEPT !.kids = wrapper.kids \o x.frag])

\* A surroundContents that loses the last character of a selection inside
\* one Text node: C9 tells it from the real one.
surroundLosingLast(d, r, wrapper) ==
  insertFilled(extractContents(d, IF r.sp = r.ep /\ r.eo > r.so
                                  THEN [r EXCEPT !.eo = r.eo - 1] ELSE r),
               [wrapper EXCEPT !.kids = <<>>])

\* Range.surroundContents(wrapper): extract, insert the wrapper at the
\* collapsed range, append the fragment to the wrapper.
surroundContents(d, r, wrapper) ==
  insertFilled(extractContents(d, r), [wrapper EXCEPT !.kids = <<>>])

\* The fallback of highlightRange (src/src/highlighter.ts:116-119):
\* extractContents, wrapper.appendChild(contents), range.insertNode(wrapper).
\* A fallback that puts the wrapper in front of the children of the common
\* ancestor: C23 tells it from the real one.
extractAndReinsertAtFront(d, r, wrapper) ==
  insertFilled([extractContents(d, r) EXCEPT !.offset = 0], wrapper)
extractAndReinsert(d, r, wrapper) == insertFilled(extractContents(d, r), wrapper)

\* The fallback throws in extractContents, or in insertNode after
\* extractContents took the contents out of the document.
reinsertThrows(x) == insertThrows(x.doc, x.node, x.offset)

fallbackThrows(d, r) == extractThrows(d, r) \/ reinsertThrows(extractContents(d, r))

\* The document the catch block of the fallback finds.
fallbackLeaves(d, r) == IF extractThrows(d, r) THEN d ELSE extractContents(d, r).doc

\* Where the wrapper of a range ends up: after the start Text node when the
\* range lies in one Text node, else after the child of the common ancestor
\* that holds the start.
insertedPath(d, r) ==
  IF r.sp = r.ep THEN Append(ParentOf(r.sp), IndexOf(r.sp) + 1)
  ELSE LET cp == CommonPrefix(r.sp, r.ep)
       IN Append(cp, r.sp[Len(cp) + 1] + 1)

\* ------------------------------------------------------------ Highlighter
\* StoredHighlight (src/unnamed/part_000:3-10)
StoredHighlight(text, color, xpath, offset, length, timestamp) ==
  [text |-> text, color |-> color, xpath |-> xpath, offset |-> offset, length |-> length,
   timestamp |-> timestamp]

\* A record made at this moment: timestamp: Date.now()
\* (src/src/highlighter.ts:134, 241); now is what Date.now() returns.
Record(text, color, xpath, offset, length) ==
  StoredHighlight(text, color, xpath, offset, length, now)

\* the null of highlightRange
NoRecord == StoredHighlight(<<>>, NoColor, <<>>, -1, -1, 0)

\* A record that takes its offset from the end of the range: C10 tells it
\* from the real one.
highlightRecordEndOffset(d2, counter, r, color, text) ==
  [doc |-> d2, counter |-> counter + 1, ok |-> TRUE,
   rec |-> Record(text, color, getXPath(d2, r.sp), r.eo, Len(text)),
   wrapper |-> NoNode]

\* Highlighter.highlightRange, src/src/highlighter.ts:99-136.
\* The result carries the new document and counter, whether a record was
\* returned, and the record.  When the fallback throws as well (lines
\* 120-124) the identifier of line 109 is used up and the document stays
\* as the fallback left it.  getXPath(startContainer) is evaluated in the
\* mutated document: the start container keeps its place in the tree (it
\* holds the text before the start offset afterwards).
highlightRecord(d2, counter, r, color, text) ==
  [doc |-> d2, counter |-> counter + 1, ok |-> TRUE,
   rec |-> Record(text, color, getXPath(d2, r.sp), r.so, Len(text)),
   wrapper |-> NoNode]

\* A highlightRange without the early return for a collapsed range: C8
\* tells it from the real one.
highlightRangeUnguarded(d, counter, r, color) ==
  IF surroundThrows(r) /\ fallbackThrows(d, r)
  THEN [doc |-> fallbackLeaves(d, r), counter |-> counter + 1, ok |-> FALSE,
        rec |-> NoRecord, wrapper |-> NoNode]
  ELSE
  [highlightRecord(IF ~surroundThrows(r)
                   THEN surroundContents(d, r, Wrapper(counter, color, <<>>))
                   ELSE extractAndReinsert(d, r, Wrapper(counter, color, <<>>)),
                   counter, r, color, rangeToString(d, r))
     EXCEPT !.wrapper = insertedPath(d, r)]

highlightRange(d, counter, r, color) ==
  IF collapsed(r)
  THEN [doc |-> d, counter |-> counter, ok |-> FALSE, rec |-> NoRecord, wrapper |-> NoNode]
  ELSE IF surroundThrows(r) /\ fallbackThrows(d, r)
  THEN [doc |-> fallbackLeaves(d, r), counter |-> counter + 1, ok |-> FALSE,
        rec |-> NoRecord, wrapper |-> NoNode]
  ELSE [highlightRecord(IF ~surroundThrows(r)
                        THEN surroundContents(d, r, Wrapper(counter, color, <<>>))
                        ELSE extractAndReinsert(d, r, Wrapper(counter, color, <<>>)),
                        counter, r, color, rangeToString(d, r))
          EXCEPT !.wrapper = insertedPath(d, r)]

\* Range.setStart / setEnd throw IndexSizeError for an offset outside
\* 0..length (the offset is an unsigned long).
boundaryThrows(n, offset) == offset < 0 \/ offset > Len(n.data)

\* A restoreHighlight that cuts the end of the range down to the length of
\* the text node instead of refusing: C5 tells it from the real one.
restoreAtClamped(d, counter, rec, p) ==
  LET fail == [doc |-> d, counter |-> counter, ok |-> FALSE]
  IN IF p = NoNode THEN fail
     ELSE IF NodeAt(d, p).kind # "text" THEN fail
     ELSE LET textNode == NodeAt(d, p)
              len == Len(textNode.data)
              end == IF rec.offset + rec.length > len THEN len ELSE rec.offset + rec.length
          IN IF boundaryThrows(textNode, rec.offset) \/ boundaryThrows(textNode, end)
             THEN fail
             ELSE LET start == IF end < rec.offset THEN end ELSE rec.offset
                      wrapper == Wrapper(counter, rec.color, <<>>)
                  IN [doc |-> surroundContents(d, Range(p, start, p, end), wrapper),
                      counter |-> counter + 1, ok |-> TRUE]

\* Highlighter.restoreHighlight, src/src/highlighter.ts:141-172
restoreAt(d, counter, rec, p) ==
  LET fail == [doc |-> d, counter |-> counter, ok |-> FALSE]
  IN IF p = NoNode THEN fail
     ELSE IF NodeAt(d, p).kind # "text" THEN fail
     ELSE LET textNode == NodeAt(d, p)
              end == rec.offset + rec.length
          IN IF end > Len(textNode.data) THEN fail
             ELSE IF boundaryThrows(textNode, rec.offset) \/ boundaryThrows(textNode, end)
                  THEN fail
             ELSE LET start == IF end < rec.offset THEN end ELSE rec.offset
                      wrapper == Wrapper(counter, rec.color, <<>>)
                  IN [doc |-> surroundContents(d, Range(p, start, p, end), wrapper),
                      counter |-> counter + 1, ok |-> TRUE]

restoreHighlight(d, counter, rec) ==
  restoreAt(d, counter, rec, findNodeByXPath(rec.xpath, d))

\* Node.normalize(): in the whole subtree, empty Text nodes are removed and
\* adjacent Text nodes are merged into the first of them.
RECURSIVE normalizeKids(_)
RECURSIVE normalize(_)
mergeText(h, rest) ==
  IF h.data = <<>> THEN rest
  ELSE IF rest # <<>> /\ Head(rest).kind = "text"
  THEN <<[h EXCEPT !.data = h.data \o Head(rest).data]>> \o Tail(rest)
  ELSE <<h>> \o rest

normalizeKids(ks) ==
  IF ks = <<>> THEN <<>>
  ELSE IF Head(ks).kind # "text" THEN <<normalize(Head(ks))>> \o normalizeKids(Tail(ks))
  ELSE mergeText(Head(ks), normalizeKids(Tail(ks)))

normalize(n) == [n EXCEPT !.kids = normalizeKids(n.kids)]

\* Highlighter.removeHighlightElement, src/src/highlighter.ts:192-201, for
\* an element attached to the document at path p; parent.normalize() first.
\* A normalize that does nothing: C21 tells it from the real one.
normalizeAtSkipped(d, parent) == d

normalizeAt(d, parent) ==
  IF parent = <<>> THEN normalize(d)
  ELSE ReplaceAt(d, parent, <<normalize(NodeAt(d, parent))>>)

\* A removal that takes the element out with its text: C6 tells it from
\* the real one.
removeWithText(d, p) ==
  IF ~NodeAt(d, p).hl THEN d
  ELSE normalizeAt(ReplaceAt(d, p, <<>>), ParentOf(p))

removeHighlightElement(d, p) ==
  IF ~NodeAt(d, p).hl THEN d
  ELSE normalizeAt(ReplaceAt(d, p, <<Text(textContent(NodeAt(d, p)))>>), ParentOf(p))

\* The elements of a snapshot list are told apart by the field nid: element
\* k of the list carries nid = k while the list is walked.
RECURSIVE LabelAll(_, _, _)
LabelAll(d, paths, k) ==
  IF k > Len(paths) THEN d
  ELSE LabelAll(ReplaceAt(d, paths[k], <<[NodeAt(d, paths[k]) EXCEPT !.nid = k]>>),
                paths, k + 1)

\* The path of the node labelled k in the subtree n at prefix, or NoNode.
RECURSIVE FindLabel(_, _, _)
RECURSIVE FindLabelIn(_, _, _, _)
RECURSIVE FoundOr(_, _, _, _, _)
FindLabel(n, prefix, k) ==
  IF n.nid = k THEN prefix ELSE FindLabelIn(n, prefix, k, 1)
FoundOr(found, n, prefix, k, i) ==
  IF found # NoNode THEN found ELSE FindLabelIn(n, prefix, k, i + 1)
FindLabelIn(n, prefix, k, i) ==
  IF i > Len(n.kids) THEN NoNode
  ELSE FoundOr(FindLabel(n.kids[i], Append(prefix, i), k), n, prefix, k, i)

\* highlights.forEach((el) => this.removeHighlightElement(el)) from element
\* k of the snapshot on.  An element that left the document with an earlier
\* removed ancestor still has a parent, so the call replaces it inside that
\* detached subtree and the document does not change.  Every element still
\* in the document is replaced by a Text node, so no label outlives the walk.
RECURSIVE forEachRemove(_, _, _)
RECURSIVE removeLabelled(_, _, _, _)
\* A walk that leaves out the last element of the list: C25 tells it from
\* the real one.
forEachRemoveButLast(d, k, n) ==
  IF k >= n THEN d ELSE removeLabelled(d, k, n, FindLabel(d, <<>>, k))

forEachRemove(d, k, n) ==
  IF k > n THEN d ELSE removeLabelled(d, k, n, FindLabel(d, <<>>, k))
removeLabelled(d, k, n, el) ==
  IF el = NoNode THEN forEachRemove(d, k + 1, n)
  ELSE forEachRemove(removeHighlightElement(d, el), k + 1, n)

\* A clearAll that stops after the first element of the list: C7 tells it
\* from the real one.
clearFirst(d) ==
  LET highlights == querySelectorAllHighlights(d)
  IN IF highlights = <<>> THEN d
     ELSE forEachRemove(LabelAll(d, highlights, 1), 1, 1)

\* Highlighter.clearAll, src/src/highlighter.ts:206-211
clearAll(d) ==
  LET highlights == querySelectorAllHighlights(d)
  IN IF highlights = <<>> THEN d
     ELSE forEachRemove(LabelAll(d, highlights, 1), 1, Len(highlights))

\* Highlighter.getFirstTextNode, src/src/highlighter.ts:246-257: the path of
\* the first Text node in the subtree at p, or NoNode.
HeadOrNoNode(ts) == IF ts = <<>> THEN NoNode ELSE Head(ts)

getFirstTextNode(d, p) ==
  LET Below(t) == IsPrefix(p, t)
  IN HeadOrNoNode(SelectSeq(TextPathSeq(d), Below))

\* Highlighter.getAllHighlights, src/src/highlighter.ts:226-244
exportRecord(d, el, firstTextNode, text) ==
  Record(text, rgbToHex(el.color),
         IF firstTextNode # NoNode THEN getXPath(d, firstTextNode) ELSE <<>>,
         0, Len(text))

\* A map that lists the elements last to first: C13 tells it from the real
\* one.
exportAllReversed(d, highlights) ==
  [i \in DOMAIN highlights |->
     exportRecord(d, NodeAt(d, highlights[Len(highlights) + 1 - i]),
                  getFirstTextNode(d, highlights[Len(highlights) + 1 - i]),
                  textContent(NodeAt(d, highlights[Len(highlights) + 1 - i])))]

exportAll(d, highlights) ==
  [i \in DOMAIN highlights |->
     exportRecord(d, NodeAt(d, highlights[i]), getFirstTextNode(d, highlights[i]),
                  textContent(NodeAt(d, highlights[i])))]

getAllHighlights(d) == exportAll(d, querySelectorAllHighlights(d))

\* String.prototype.trim() for text whose only white space is " "
RECURSIVE trimStart(_)
trimStart(str) ==
  IF str # <<>> /\ Head(str) = " " THEN trimStart(Tail(str)) ELSE str

RECURSIVE trimEnd(_)
trimEnd(str) ==
  IF str # <<>> /\ str[Len(str)] = " " THEN trimEnd(SubSeq(str, 1, Len(str) - 1)) ELSE str

trim(str) == trimEnd(trimStart(str))

\* Array.prototype.join("\n\n") over strings
RECURSIVE joinBlankLine(_)
joinBlankLine(strs) ==
  IF strs = <<>> THEN <<>>
  ELSE IF Len(strs) = 1 THEN strs[1]
  ELSE strs[1] \o <<"\n", "\n">> \o joinBlankLine(Tail(strs))

\* Highlighter.getAllHighlightedText, src/src/highlighter.ts:216-221
trimmedTexts(d, highlights) ==
  [i \in DOMAIN highlights |-> trim(textContent(NodeAt(d, highlights[i])))]

getAllHighlightedText(d) ==
  joinBlankLine(trimmedTexts(d, querySelectorAllHighlights(d)))

\* updateClearButtonVisibility, src/src/content.ts:100-106: whether the
\* clear-all button carries st-hidden afterwards.
updateClearButtonVisibility(d) == getAllHighlightedText(d) = <<>>

\* ---------------------------------------------------------------- storage
\* A URL is a sequence of character codes.
Hash == 35
SlashChar == 47

\* url.split("#")[0]
RECURSIVE BeforeHash(_)
BeforeHash(url) ==
  IF url = <<>> \/ Head(url) = Hash THEN <<>>
  ELSE <<Head(url)>> \o BeforeHash(Tail(url))

\* .replace(/\/$/, ""): one trailing slash removed
DropTrailingSlash(u) ==
  IF u # <<>> /\ u[Len(u)] = SlashChar THEN SubSeq(u, 1, Len(u) - 1) ELSE u

normalized(url) == DropTrailingSlash(BeforeHash(url))

\* btoa: every three bytes give four 6-bit digits; one or two bytes left
\* over give two or three digits and padding (written 64).
Pad == 64
RECURSIVE btoa(_)
btoa(bytes) ==
  IF bytes = <<>> THEN <<>>
  ELSE IF Len(bytes) = 1
  THEN <<bytes[1] \div 4, (bytes[1] % 4) * 16, Pad, Pad>>
  ELSE IF Len(bytes) = 2
  THEN <<bytes[1] \div 4, (bytes[1] % 4) * 16 + bytes[2] \div 16, (bytes[2] % 16) * 4, Pad>>
  ELSE <<bytes[1] \div 4, (bytes[1] % 4) * 16 + bytes[2] \div 16,
         (bytes[2] % 16) * 4 + bytes[3] \div 64, bytes[3] % 64>>
         \o btoa(SubSeq(bytes, 4, Len(bytes)))

\* .slice(0, 100)
KeySlice == 100
slice(str, n) == SubSeq(str, 1, IF Len(str) < n THEN Len(str) ELSE n)

\* HighlightStorage.getStorageKey, src/unnamed/part_000:23-27; the prefix
\* "st-highlights-" is the same in every key and is left out.
getStorageKey(url) == slice(btoa(normalized(url)), KeySlice)

\* JSON text as a sequence of members: JSON.stringify of a list of records
\* and JSON.parse of such a text.
JSONMember(key, form, str, num) == [key |-> key, form |-> form, str |-> str, num |-> num]

stringifyRecord(h) ==
  << JSONMember("{", "", <<>>, 0),
     JSONMember("text", "string", h.text, 0),
     JSONMember("color", h.color.form, h.color.v, 0),
     JSONMember("xpath", "string", h.xpath, 0),
     JSONMember("offset", "number", <<>>, h.offset),
     JSONMember("length", "number", <<>>, h.length),
     JSONMember("timestamp", "number", <<>>, h.timestamp),
     JSONMember("}", "", <<>>, 0) >>

JSONstringify(highlights) ==
  Flatten([i \in DOMAIN highlights |-> stringifyRecord(highlights[i])])

JSONparse(json) ==
  [i \in 1..(Len(json) \div 8) |->
     LET at == 8 * (i - 1)
     IN StoredHighlight(json[at + 2].str,
                        [form |-> json[at + 3].form, v |-> json[at + 3].str],
                        json[at + 4].str, json[at + 5].num, json[at + 6].num,
                        json[at + 7].num)]

\* A localStorage item: getItem gives null (NoEntry) or the stored string.
\* The data saved and loaded, src/unnamed/part_000:34-40 and 53-57.
NoEntry == [present |-> FALSE, data |-> <<>>]
save(highlights) == [present |-> TRUE, data |-> JSONstringify(highlights)]
load(entry) == IF ~entry.present THEN <<>> ELSE JSONparse(entry.data)

\* HighlightStorage.save, load and clear of the page at url on the
\* localStorage ls (src/unnamed/part_000:32-70).
\* A save that adds to the list already stored: C16 tells it from the real
\* one.
storageSaveAdding(ls, url, highlights) ==
  [ls EXCEPT ![getStorageKey(url)] = save(load(ls[getStorageKey(url)]) \o highlights)]
storageSave(ls, url, highlights) == [ls EXCEPT ![getStorageKey(url)] = save(highlights)]
storageLoad(ls, url) == load(ls[getStorageKey(url)])
storageClear(ls, url) == [ls EXCEPT ![getStorageKey(url)] = NoEntry]

\* "https://e.com/"
Origin == <<104, 116, 116, 112, 115, 58, 47, 47, 101, 46, 99, 111, 109, 47>>
\* "https://e.com/a", ".../a#x", ".../a/", ".../b"
UrlA == Origin \o <<97>>
UrlAHash == Origin \o <<97, Hash, 120>>
UrlASlash == Origin \o <<97, SlashChar>>
UrlB == Origin \o <<98>>
\* Two pages whose paths share their first 70 characters: "https://e.com/"
\* and 70 times "a", then "1" or "2".
LongCommon == Origin \o [i \in 1..70 |-> 97]
UrlLong1 == LongCommon \o <<49>>
UrlLong2 == LongCommon \o <<50>>

Urls == {UrlA, UrlAHash, UrlASlash, UrlB, UrlLong1, UrlLong2}

\* window.location.href of the page the content script runs in
Href == UrlA

\* localStorage without an item
EmptyStorage == [k \in { getStorageKey(u) : u \in Urls } |-> NoEntry]

\* saveHighlights, src/src/content.ts:96-98
saveHighlights(ls, d) == storageSave(ls, Href, getAllHighlights(d))

\* A pass that ends at the first record that fails, as it would if the
\* failure escaped restoreHighlight: C15 tells it from the real one.
RECURSIVE restorePassAborting(_, _, _, _, _)
restorePassAborting(d, counter, highlights, k, results) ==
  IF k > Len(highlights) THEN [doc |-> d, counter |-> counter, results |-> results]
  ELSE LET r == restoreHighlight(d, counter, highlights[k])
       IN IF ~r.ok THEN [doc |-> d, counter |-> counter, results |-> Append(results, FALSE)]
          ELSE restorePassAborting(r.doc, r.counter, highlights, k + 1,
                                   Append(results, r.ok))

\* The startup pass, src/src/content.ts:231-239:
\* highlights.filter(h => highlighter.restoreHighlight(h)), record k onward.
RECURSIVE restorePass(_, _, _, _, _)
restorePass(d, counter, highlights, k, results) ==
  IF k > Len(highlights) THEN [doc |-> d, counter |-> counter, results |-> results]
  ELSE LET r == restoreHighlight(d, counter, highlights[k])
       IN restorePass(r.doc, r.counter, highlights, k + 1, Append(results, r.ok))

\* ------------------------------------------------------------------ state
NoRange == Range(<<>>, 0, <<>>, 0)

\* The content script as it starts: src/src/content.ts:92-94, the toolbar
\* the exit overlay and the clear-all button hidden (src/src/toolbar.ts:19,
\* 33, 131, 113).
InitScript ==
  /\ isHighlightingEnabled = FALSE
  /\ currentRange = NoRange
  /\ lastUsedColor = COLORS[1]
  /\ toolbarIsVisible = FALSE
  /\ exitOverlayHidden = TRUE
  /\ clearButtonHidden = TRUE

\* last: the latest operation, its arguments, the document and counter it
\* started from, and its result.
Last(op, r, color, rec, el, ok, results) ==
  [op |-> op, pre |-> doc, preCounter |-> highlightIdCounter, range |-> r,
   color |-> color, rec |-> rec, el |-> el, ok |-> ok, results |-> results,
   before |-> [op |-> last.op, pre |-> last.pre, ok |-> last.ok, el |-> last.el,
               rec |-> IF last.op \in {"highlightRange", "onColorSelected"}
                       THEN last.rec ELSE NoRecord]]

Init ==
  /\ now = 0
  /\ orig \in Fixtures
  /\ doc = orig
  /\ highlightIdCounter = 0
  /\ InitScript
  /\ stored = EmptyStorage
  /\ ops = 0
  /\ restores = 0
  /\ last = [op |-> "init", pre |-> orig, preCounter |-> 0, range |-> NoRange,
             color |-> NoColor, rec |-> NoRecord, el |-> <<>>, ok |-> FALSE,
             results |-> <<>>,
             before |-> [op |-> "init", pre |-> orig, ok |-> FALSE, el |-> <<>>,
                         rec |-> NoRecord]]

\* Sample text of the fixtures, and a text that occurs in none of them.
Alphabet == <<"a", "b", "c">>
Foreign == <<"z">>

\* "/html/body/p[1]/text()[1]", the path the unit tests write by hand
HandPath == <<Slash, Step("html", 0), Slash, Step("body", 0), Slash, Step("p", 1),
              Slash, Step("text()", 1)>>
\* "/invalid/xpath[999]"
InvalidPath == <<Slash, Step("invalid", 0), Slash, Step("xpath", 999)>>

\* "/html/", a malformed expression, and "/html/body/p[1]", an element
MalformedPath == <<Slash, Step("html", 0), Slash>>
ElementPath == <<Slash, Step("html", 0), Slash, Step("body", 0), Slash, Step("p", 1)>>

\* The text field of an input record: the characters the fixture text holds
\* at the recorded place, or a text that is not there.
TextInputs(offset, length) ==
  IF length = 0 THEN {<<>>}
  ELSE IF offset + length <= Len(Alphabet)
  THEN {SubSeq(Alphabet, offset + 1, offset + length), Foreign}
  ELSE {Foreign}

\* Paths getXPath gives for the Text nodes of the page as loaded.
ProducedPaths == { getXPath(orig, t) : t \in TextPaths(orig) }
\* An unresolvable path and the empty string.
BadPaths == {InvalidPath, <<>>}

\* The records handed to restoreHighlight: the hand-written path with every
\* offset and length; the first character at each produced and bad path.
RecordInputs ==
  UNION { { Record(text, COLORS[2], HandPath, ol[1], ol[2]) :
              text \in TextInputs(ol[1], ol[2]) } :
          ol \in (0..MaxField) \X (0..MaxField) }
    \cup { Record(<<"a">>, COLORS[2], xpath, 0, 1) : xpath \in ProducedPaths \cup BadPaths }

\* The elements handed to removeHighlightElement: every marker, and the
\* paragraphs, which are no markers.
RemoveTargets(d) ==
  MarkerPaths(d) \cup { p \in ElementPaths(d) : NodeAt(d, p).tag = "p" }

\* A selection the content script acts on: selection.toString().trim() is
\* not empty (src/src/content.ts:173, 245); the fixture texts hold no
\* whitespace, so these are the ranges that are not collapsed.
Selections(d) == { r \in RangesOf(d) : rangeToString(d, r) # <<>> }

\* ---------------------------------------------------------------- actions
\* highlighter.highlightRange(range, color)
HighlightRange ==
  /\ ops < MaxOps
  /\ \E r \in RangesOf(doc), color \in UsedColors :
       \E h \in {highlightRange(doc, highlightIdCounter, r, color)} :
          /\ doc' = h.doc
          /\ highlightIdCounter' = h.counter
          /\ last' = Last("highlightRange", r, color, h.rec, h.wrapper, h.ok, <<>>)
  /\ ops' = ops + 1
  /\ UNCHANGED <<now, script, orig, stored, restores>>

\* highlighter.restoreHighlight(stored)
RestoreHighlight ==
  /\ ops < MaxOps
  /\ restores < MaxRestores
  /\ restores' = restores + 1
  /\ \E rec \in RecordInputs :
       \E h \in {restoreHighlight(doc, highlightIdCounter, rec)} :
          /\ doc' = h.doc
          /\ highlightIdCounter' = h.counter
          /\ last' = Last("restoreHighlight", NoRange, rec.color, rec, <<>>, h.ok, <<>>)
  /\ ops' = ops + 1
  /\ UNCHANGED <<now, script, orig, stored>>

\* highlighter.removeHighlightElement(el) for an element of the document
RemoveHighlightElement ==
  /\ ops < MaxOps
  /\ \E el \in RemoveTargets(doc) :
       /\ doc' = removeHighlightElement(doc, el)
       /\ last' = Last("removeHighlightElement", NoRange, NoColor, NoRecord, el, TRUE, <<>>)
  /\ ops' = ops + 1
  /\ UNCHANGED <<now, script, orig, highlightIdCounter, stored, restores>>

\* highlighter.clearAll()
ClearAll ==
  /\ ops < MaxOps
  /\ doc' = clearAll(doc)
  /\ last' = Last("clearAll", NoRange, NoColor, NoRecord, <<>>, TRUE, <<>>)
  /\ ops' = ops + 1
  /\ UNCHANGED <<now, script, orig, highlightIdCounter, stored, restores>>

Next == HighlightRange \/ RestoreHighlight \/ RemoveHighlightElement \/ ClearAll

Spec == Init /\ [][Next]_vars

\* ------------------------------------------------ marking, then unmarking
\* highlighter.highlightRange(range, color) for a range that is not
\* collapsed and the first color of the palette
HighlightSelected ==
  /\ ops < MaxOps
  /\ \E r \in Selections(doc) :
       \E h \in {highlightRange(doc, highlightIdCounter, r, COLORS[1])} :
          /\ doc' = h.doc
          /\ highlightIdCounter' = h.counter
          /\ last' = Last("highlightRange", r, COLORS[1], h.rec, h.wrapper, h.ok, <<>>)
  /\ ops' = ops + 1
  /\ UNCHANGED <<now, script, orig, stored, restores>>

\* highlighter.clearAll() after the marks of the session, which it ends
ClearAllAfter ==
  /\ ops <= MaxOps
  /\ last.op \in {"init", "highlightRange", "restoreHighlight"}
  /\ doc' = clearAll(doc)
  /\ last' = Last("clearAll", NoRange, NoColor, NoRecord, <<>>, TRUE, <<>>)
  /\ ops' = MaxOps + 1
  /\ UNCHANGED <<now, script, orig, highlightIdCounter, stored, restores>>

\* highlighter.removeHighlightElement(el) for one marker, after the marks
\* of the session, which it ends
RemoveAfter ==
  /\ ops <= MaxOps
  /\ last.op \in {"highlightRange", "restoreHighlight"}
  /\ \E el \in MarkerPaths(doc) :
       /\ doc' = removeHighlightElement(doc, el)
       /\ last' = Last("removeHighlightElement", NoRange, NoColor, NoRecord, el, TRUE, <<>>)
  /\ ops' = MaxOps + 1
  /\ UNCHANGED <<now, script, orig, highlightIdCounter, stored, restores>>

\* Sessions of up to MaxOps marks followed by one removal or one clearAll.
NextUnmark == HighlightSelected \/ RestoreHighlight \/ ClearAllAfter \/ RemoveAfter

SpecUnmark == Init /\ [][NextUnmark]_vars

\* -------------------------------------------- ranges from the Document node
\* highlighter.highlightRange(range, color) for a range that starts at a
\* boundary point of the Document node
HighlightFromDocument ==
  /\ ops < MaxOps
  /\ \E r \in DocumentRanges(doc), color \in UsedColors :
       \E h \in {highlightRange(doc, highlightIdCounter, r, color)} :
          /\ doc' = h.doc
          /\ highlightIdCounter' = h.counter
          /\ last' = Last("highlightRange", r, color, h.rec, h.wrapper, h.ok, <<>>)
  /\ ops' = ops + 1
  /\ UNCHANGED <<now, script, orig, stored, restores>>

\* Pages with and without a doctype.
InitRanges ==
  /\ now = 0
  /\ orig \in {DocHead, DocTyped}
  /\ doc = orig
  /\ highlightIdCounter = 0
  /\ InitScript
  /\ stored = EmptyStorage
  /\ ops = 0
  /\ restores = 0
  /\ last = [op |-> "init", pre |-> orig, preCounter |-> 0, range |-> NoRange,
             color |-> NoColor, rec |-> NoRecord, el |-> <<>>, ok |-> FALSE,
             results |-> <<>>,
             before |-> [op |-> "init", pre |-> orig, ok |-> FALSE, el |-> <<>>,
                         rec |-> NoRecord]]

SpecRanges == InitRanges /\ [][HighlightFromDocument \/ Next]_vars

\* --------------------------------------------------------- content script
\* toolbar.onColorSelected(color) while currentRange is r,
\* src/src/content.ts:131-143: the whole callback.  The clock moves on after
\* every event of the content script: the event happens at now, the next
\* one a unit later.
onColorSelected(r, color) ==
  /\ \E h \in {highlightRange(doc, highlightIdCounter, r, color)} :
       /\ doc' = h.doc
       /\ highlightIdCounter' = h.counter
       /\ stored' = IF h.ok THEN saveHighlights(stored, h.doc) ELSE stored
       /\ lastUsedColor' = IF h.ok THEN color ELSE lastUsedColor
       /\ clearButtonHidden' = IF h.ok THEN updateClearButtonVisibility(h.doc)
                               ELSE clearButtonHidden
       /\ last' = Last("onColorSelected", r, color, h.rec, h.wrapper, h.ok, <<>>)
  /\ toolbarIsVisible' = FALSE
  /\ currentRange' = NoRange
  /\ ops' = ops + 1
  /\ now' = now + 1
  /\ UNCHANGED <<isHighlightingEnabled, exitOverlayHidden, orig, restores>>

\* toolbar.onColorSelected for any range the user can have selected
OnColorSelected ==
  /\ ops < MaxOps
  /\ \E r \in Selections(doc), color \in UsedColors : onColorSelected(r, color)

\* deleteBtn.onclick of a highlight, src/src/content.ts:212-217
OnDeleteClick ==
  /\ ops < MaxOps
  /\ \E el \in MarkerPaths(doc) :
       \E d2 \in {removeHighlightElement(doc, el)} :
          /\ doc' = d2
          /\ stored' = saveHighlights(stored, d2)
          /\ clearButtonHidden' = updateClearButtonVisibility(d2)
          /\ last' = Last("deleteBtn.onclick", NoRange, NoColor, NoRecord, el, TRUE, <<>>)
  /\ ops' = ops + 1
  /\ now' = now + 1
  /\ UNCHANGED <<isHighlightingEnabled, currentRange, lastUsedColor, toolbarIsVisible,
                 exitOverlayHidden, orig, highlightIdCounter, restores>>

\* The clear-all button / Ctrl+Shift+X, src/src/content.ts:117-121, 278-283
\* and src/src/toolbar.ts:115-118
OnClearAll ==
  /\ ops < MaxOps
  /\ doc' = clearAll(doc)
  /\ stored' = storageClear(stored, Href)
  /\ clearButtonHidden' = TRUE
  /\ last' = Last("onClearAll", NoRange, NoColor, NoRecord, <<>>, TRUE, <<>>)
  /\ ops' = ops + 1
  /\ now' = now + 1
  /\ UNCHANGED <<isHighlightingEnabled, currentRange, lastUsedColor, toolbarIsVisible,
                 exitOverlayHidden, orig, highlightIdCounter, restores>>

\* Some record of the startup pass was restored: restored.length > 0,
\* src/src/content.ts:233-235
RECURSIVE someRestored(_)
someRestored(results) ==
  results # <<>> /\ (Head(results) \/ someRestored(Tail(results)))

\* The page is loaded again unchanged and the content script starts: a new
\* Highlighter, the script's variables as they are declared, then the
\* startup pass over storage.load() (src/src/content.ts:88-94, 231-239).
Reload ==
  /\ ops < MaxOps
  /\ \E pass \in {restorePass(orig, 0, storageLoad(stored, Href), 1, <<>>)} :
       /\ doc' = pass.doc
       /\ highlightIdCounter' = pass.counter
       /\ clearButtonHidden' = IF someRestored(pass.results)
                               THEN updateClearButtonVisibility(pass.doc) ELSE TRUE
       /\ last' = Last("reload", NoRange, NoColor, NoRecord, <<>>, TRUE, pass.results)
  /\ isHighlightingEnabled' = FALSE
  /\ currentRange' = NoRange
  /\ lastUsedColor' = COLORS[1]
  /\ toolbarIsVisible' = FALSE
  /\ exitOverlayHidden' = TRUE
  /\ ops' = ops + 1
  /\ now' = now + 1
  /\ UNCHANGED <<orig, stored, restores>>

NextContent == OnColorSelected \/ OnDeleteClick \/ OnClearAll \/ Reload

SpecContent == Init /\ [][NextContent]_vars

\* ------------------------------------------------------- reported colors
\* Colors a page script or the style engine can leave in a marker's inline
\* style (src/unnamed/part_005:364 sets "rgb(255, 247, 165)"): rgb triples
\* with components below and above 16, and the palette in hex form, which
\* an engine that keeps the authored value reports.
SampleRgb == { RgbColor(0, 0, 0), RgbColor(0, 5, 15), RgbColor(16, 9, 255),
               RgbColor(10, 160, 171), RgbColor(255, 255, 255) }
StyleColors == SampleRgb \cup SeqToSet(COLORS)

\* highlighter.highlightRange(range, color) on a page without markers, for
\* every color of the palette
MarkWithColor ==
  /\ ops < MaxOps
  /\ MarkerPaths(doc) = {}
  /\ \E r \in Selections(doc), color \in SeqToSet(COLORS) :
       \E h \in {highlightRange(doc, highlightIdCounter, r, color)} :
          /\ doc' = h.doc
          /\ highlightIdCounter' = h.counter
          /\ last' = Last("markWithColor", r, color, h.rec, h.wrapper, h.ok, <<>>)
  /\ ops' = ops + 1
  /\ UNCHANGED <<now, script, orig, stored, restores>>

\* highlightElement.style.backgroundColor = c
SetBackgroundColor ==
  /\ ops < MaxOps
  /\ \E el \in MarkerPaths(doc), c \in StyleColors :
       /\ doc' = ReplaceAt(doc, el, <<[NodeAt(doc, el) EXCEPT !.color = c]>>)
       /\ last' = Last("setBackgroundColor", NoRange, c, NoRecord, el, TRUE, <<>>)
  /\ ops' = ops + 1
  /\ UNCHANGED <<now, script, orig, highlightIdCounter, stored, restores>>

NextColor == MarkWithColor \/ SetBackgroundColor

SpecColor == Init /\ [][NextColor]_vars

\* ------------------------------------------------ records without a target
\* Paths that are malformed, empty, unresolvable, the root "/", or the
\* path getXPath gives for an element of the document.
UntargetedPaths(d) ==
  {MalformedPath, <<>>, InvalidPath, <<Slash>>, ElementPath}
    \cup { getXPath(d, e) : e \in ElementPaths(d) }

UntargetedRecords(d) ==
  { Record(<<"a">>, COLORS[2], xpath, 0, length) :
      xpath \in UntargetedPaths(d), length \in 0..1 }

\* highlighter.restoreHighlight(stored) for such a record
RestoreUntargeted ==
  /\ ops < MaxOps
  /\ \E rec \in UntargetedRecords(doc) :
       \E h \in {restoreHighlight(doc, highlightIdCounter, rec)} :
          /\ doc' = h.doc
          /\ highlightIdCounter' = h.counter
          /\ last' = Last("restoreHighlight", NoRange, rec.color, rec, <<>>, h.ok, <<>>)
  /\ ops' = ops + 1
  /\ UNCHANGED <<now, script, orig, stored, restores>>

SpecUntargeted == Init /\ [][MarkWithColor \/ RestoreUntargeted]_vars

\* ------------------------------------------------------- stored batches
\* Records an earlier session or an older version of the page can have
\* left in storage: a good one, a negative offset, a negative length, an
\* offset + length beyond the text, and paths that are unresolvable,
\* empty, malformed or lead to an element.
BatchRecords ==
  { Record(<<"a">>, COLORS[2], HandPath, 0, 1),
    Record(<<"a">>, COLORS[2], HandPath, -1, 1),
    Record(<<"a">>, COLORS[2], HandPath, 2, -1),
    Record(<<"a">>, COLORS[2], HandPath, 2, 2),
    Record(<<"a">>, COLORS[2], InvalidPath, 0, 1),
    Record(<<"a">>, COLORS[2], <<>>, 0, 1),
    Record(<<"a">>, COLORS[2], MalformedPath, 0, 1),
    Record(<<"a">>, COLORS[2], ElementPath, 0, 1) }

Batches == UNION { [1..n -> BatchRecords] : n \in 0..MaxBatch }

\* The content script starts on a page whose storage entry holds a batch.
InitBatch ==
  /\ now = 0
  /\ orig \in Fixtures
  /\ doc = orig
  /\ highlightIdCounter = 0
  /\ InitScript
  /\ stored \in { storageSave(EmptyStorage, Href, b) : b \in Batches }
  /\ ops = 0
  /\ restores = 0
  /\ last = [op |-> "init", pre |-> orig, preCounter |-> 0, range |-> NoRange,
             color |-> NoColor, rec |-> NoRecord, el |-> <<>>, ok |-> FALSE,
             results |-> <<>>,
             before |-> [op |-> "init", pre |-> orig, ok |-> FALSE, el |-> <<>>,
                         rec |-> NoRecord]]

SpecBatch == InitBatch /\ [][Reload]_vars

\* ------------------------------------------------ the page after startup
\* Stored lists of two records that restore on the page as loaded and a
\* record whose path leads nowhere.
StartupBatches ==
  UNION { [1..n -> { Record(<<"a">>, COLORS[2], HandPath, 0, 1),
                     Record(<<"b">>, COLORS[3], HandPath, 1, 1),
                     Record(<<"a">>, COLORS[2], InvalidPath, 0, 1) }] : n \in 0..MaxBatch }

\* The content script has started on a page whose storage entry holds such
\* a list: a new Highlighter and the startup pass over storage.load()
\* (src/src/content.ts:88-89, 231-239).
InitStartup ==
  /\ now = 0
  /\ orig \in Fixtures
  /\ isHighlightingEnabled = FALSE
  /\ currentRange = NoRange
  /\ lastUsedColor = COLORS[1]
  /\ toolbarIsVisible = FALSE
  /\ exitOverlayHidden = TRUE
  /\ stored \in { storageSave(EmptyStorage, Href, b) : b \in StartupBatches }
  /\ ops = 0
  /\ restores = 0
  /\ \E pass \in {restorePass(orig, 0, storageLoad(stored, Href), 1, <<>>)} :
       /\ doc = pass.doc
       /\ highlightIdCounter = pass.counter
       /\ clearButtonHidden = IF someRestored(pass.results)
                              THEN updateClearButtonVisibility(pass.doc) ELSE TRUE
       /\ last = [op |-> "reload", pre |-> orig, preCounter |-> 0, range |-> NoRange,
                  color |-> NoColor, rec |-> NoRecord, el |-> <<>>, ok |-> TRUE,
                  results |-> pass.results,
                  before |-> [op |-> "init", pre |-> orig, ok |-> FALSE, el |-> <<>>,
                              rec |-> NoRecord]]

SpecStartup == InitStartup /\ [][NextContent]_vars

\* ------------------------------------------- events of the content script
\* window.getSelection() when an event arrives: no range at all, or a range
\* within one Text node, collapsed or not.
SelectionInputs(d) == {NoRange} \cup { r \in RangesOf(d) : r.sp = r.ep }

\* selection.rangeCount && selection.toString().trim(),
\* src/src/content.ts:173, 245, 293
hasSelectedText(d, sel) == sel # NoRange /\ trim(rangeToString(d, sel)) # <<>>

\* A live Range the DOM has moved because the tree changed under it; the
\* script reads currentRange only in toolbar.onColorSelected.
MovedRange == Range(<<0>>, -1, <<0>>, -1)

\* chrome.runtime.onMessage with action "toggleHighlighting",
\* src/src/content.ts:158-164
OnMessage ==
  /\ ops < MaxEvents
  /\ isHighlightingEnabled' = ~isHighlightingEnabled
  /\ exitOverlayHidden' = ~isHighlightingEnabled'
  /\ toolbarIsVisible' = IF ~isHighlightingEnabled' THEN FALSE ELSE toolbarIsVisible
  /\ last' = Last("onMessage", NoRange, NoColor, NoRecord, <<>>, TRUE, <<>>)
  /\ ops' = ops + 1
  /\ now' = now + 1
  /\ UNCHANGED <<doc, orig, highlightIdCounter, stored, restores, currentRange,
                 lastUsedColor, clearButtonHidden>>

\* A click on the exit button, which can be clicked while the overlay is
\* shown: src/src/toolbar.ts:143-146 and onExit, src/src/content.ts:123-128
OnExit ==
  /\ ops < MaxEvents
  /\ ~exitOverlayHidden
  /\ isHighlightingEnabled' = FALSE
  /\ exitOverlayHidden' = TRUE
  /\ toolbarIsVisible' = FALSE
  /\ clearButtonHidden' = TRUE
  /\ last' = Last("onExit", NoRange, NoColor, NoRecord, <<>>, TRUE, <<>>)
  /\ ops' = ops + 1
  /\ now' = now + 1
  /\ UNCHANGED <<doc, orig, highlightIdCounter, stored, restores, currentRange,
                 lastUsedColor>>

\* A mouseup handler that does not look at isHighlightingEnabled: C30 tells
\* it from the real one.
OnMouseUpUnguarded ==
  /\ ops < MaxEvents
  /\ \E inUI \in BOOLEAN, sel \in SelectionInputs(doc) :
       /\ IF inUI
          THEN UNCHANGED <<currentRange, toolbarIsVisible>>
          ELSE IF ~hasSelectedText(doc, sel)
          THEN toolbarIsVisible' = FALSE /\ UNCHANGED currentRange
          ELSE currentRange' = sel /\ toolbarIsVisible' = TRUE
       /\ last' = Last("mouseup", NoRange, NoColor, NoRecord, <<>>, TRUE, <<>>)
  /\ ops' = ops + 1
  /\ now' = now + 1
  /\ UNCHANGED <<doc, orig, highlightIdCounter, stored, restores,
                 isHighlightingEnabled, lastUsedColor, exitOverlayHidden,
                 clearButtonHidden>>

\* mouseup on the document, src/src/content.ts:166-186; inUI: the target is
\* inside the toolbar, the clear-all button or the exit overlay.
OnMouseUp ==
  /\ ops < MaxEvents
  /\ \E inUI \in BOOLEAN, sel \in SelectionInputs(doc) :
       /\ IF ~isHighlightingEnabled \/ inUI
          THEN UNCHANGED <<currentRange, toolbarIsVisible>>
          ELSE IF ~hasSelectedText(doc, sel)
          THEN toolbarIsVisible' = FALSE /\ UNCHANGED currentRange
          ELSE currentRange' = sel /\ toolbarIsVisible' = TRUE
       /\ last' = Last("mouseup", NoRange, NoColor, NoRecord, <<>>, TRUE, <<>>)
  /\ ops' = ops + 1
  /\ now' = now + 1
  /\ UNCHANGED <<doc, orig, highlightIdCounter, stored, restores,
                 isHighlightingEnabled, lastUsedColor, exitOverlayHidden,
                 clearButtonHidden>>

\* mousedown on a color pill of the toolbar, which can be pressed while the
\* toolbar is shown: src/src/toolbar.ts:36-46 and toolbar.onColorSelected,
\* src/src/content.ts:131-143
OnPillMouseDown ==
  /\ ops < MaxEvents
  /\ toolbarIsVisible
  /\ \E color \in UsedColors :
       IF currentRange = NoRange
       THEN /\ last' = Last("onColorSelected", NoRange, color, NoRecord, <<>>,
                            FALSE, <<>>)
            /\ ops' = ops + 1
            /\ now' = now + 1
            /\ UNCHANGED <<doc, orig, highlightIdCounter, stored, restores, script>>
       ELSE onColorSelected(currentRange, color)

\* highlightSelection(color) while window.getSelection() is sel,
\* src/src/content.ts:243-256, called from the keydown handler for key.
highlightSelection(key, sel, color) ==
  IF ~hasSelectedText(doc, sel)
  THEN /\ last' = Last(key, NoRange, color, NoRecord, <<>>, FALSE, <<>>)
       /\ UNCHANGED <<doc, highlightIdCounter, stored, currentRange, lastUsedColor,
                      toolbarIsVisible, clearButtonHidden>>
  ELSE /\ \E h \in {highlightRange(doc, highlightIdCounter, sel, color)} :
            /\ doc' = h.doc
            /\ highlightIdCounter' = h.counter
            /\ stored' = IF h.ok THEN saveHighlights(stored, h.doc) ELSE stored
            /\ lastUsedColor' = IF h.ok THEN color ELSE lastUsedColor
            /\ clearButtonHidden' = IF h.ok THEN updateClearButtonVisibility(h.doc)
                                    ELSE clearButtonHidden
            /\ currentRange' = IF currentRange = NoRange \/ h.doc = doc
                               THEN currentRange ELSE MovedRange
            /\ last' = Last(key, sel, color, h.rec, h.wrapper, h.ok, <<>>)
       /\ toolbarIsVisible' = FALSE

\* keydown of Ctrl+Shift+H, src/src/content.ts:261-268
OnKeyH ==
  /\ ops < MaxEvents
  /\ isHighlightingEnabled' = TRUE
  /\ exitOverlayHidden' = IF ~isHighlightingEnabled THEN FALSE ELSE exitOverlayHidden
  /\ \E sel \in SelectionInputs(doc) : highlightSelection("keydown.H", sel, lastUsedColor)
  /\ ops' = ops + 1
  /\ now' = now + 1
  /\ UNCHANGED <<orig, restores>>

\* The keys "1" to "6" whose colors the model passes: parseInt(key)
KeyDigits == { i \in DOMAIN COLORS : COLORS[i] \in UsedColors }

\* keydown of a key "1" to "6", src/src/content.ts:291-297
OnKeyDigit ==
  /\ ops < MaxEvents
  /\ \E i \in KeyDigits, sel \in SelectionInputs(doc) :
       IF isHighlightingEnabled /\ hasSelectedText(doc, sel)
       THEN highlightSelection("keydown.digit", sel, COLORS[i])
       ELSE /\ last' = Last("keydown.digit", NoRange, COLORS[i], NoRecord, <<>>,
                            FALSE, <<>>)
            /\ UNCHANGED <<doc, highlightIdCounter, stored, currentRange, lastUsedColor,
                           toolbarIsVisible, clearButtonHidden>>
  /\ ops' = ops + 1
  /\ now' = now + 1
  /\ UNCHANGED <<orig, restores, isHighlightingEnabled, exitOverlayHidden>>

NextEvents ==
  OnMessage \/ OnExit \/ OnMouseUp \/ OnPillMouseDown \/ OnKeyH \/ OnKeyDigit

SpecEvents == Init /\ [][NextEvents]_vars

\* ------------------------------------------------------- storage of pages
\* Lists handed to save (src/unnamed/part_003:100-129): none, one and two
\* records.
SavedLists ==
  { <<>>,
    << Record(<<"a">>, COLORS[1], HandPath, 0, 1) >>,
    << Record(<<"b">>, COLORS[3], HandPath, 1, 1), Record(<<"a">>, COLORS[1], HandPath, 0, 1) >> }

\* A HighlightStorage for each page of one origin; last names the latest
\* call, its page and list, and the localStorage it started from.
InitStorage ==
  /\ now = 0
  /\ orig \in Fixtures
  /\ doc = orig
  /\ highlightIdCounter = 0
  /\ InitScript
  /\ stored = EmptyStorage
  /\ ops = 0
  /\ restores = 0
  /\ last = [op |-> "init", url |-> <<>>, list |-> <<>>, pre |-> EmptyStorage]

\* storage.save(list) in the page at url
StorageSave ==
  /\ ops < MaxOps
  /\ \E url \in Urls, list \in SavedLists :
       /\ stored' = storageSave(stored, url, list)
       /\ last' = [op |-> "save", url |-> url, list |-> list, pre |-> stored]
  /\ ops' = ops + 1
  /\ UNCHANGED <<now, script, doc, orig, highlightIdCounter, restores>>

\* storage.clear() in the page at url
StorageClear ==
  /\ ops < MaxOps
  /\ \E url \in Urls :
       /\ stored' = storageClear(stored, url)
       /\ last' = [op |-> "clear", url |-> url, list |-> <<>>, pre |-> stored]
  /\ ops' = ops + 1
  /\ UNCHANGED <<now, script, doc, orig, highlightIdCounter, restores>>

NextStorage == StorageSave \/ StorageClear

SpecStorage == InitStorage /\ [][NextStorage]_vars

\* ----------------------------------------------------------------- export
\* HighlightExporter.exportAsJSON, src/unnamed/part_002:89-103: the JSON
\* text of { count, highlights: [{ text, color }] } (url, title, exported
\* and the timestamps are left out).
exportAsJSON(highlights) ==
  << JSONMember("count", "number", <<>>, Len(highlights)) >>
    \o Flatten([i \in DOMAIN highlights |->
                  << JSONMember("{", "", <<>>, 0),
                     JSONMember("text", "string", trim(highlights[i].text), 0),
                     JSONMember("color", highlights[i].color.form, highlights[i].color.v, 0),
                     JSONMember("}", "", <<>>, 0) >>])

\* The highlights array of an exported JSON text.
exportedHighlights(json) ==
  [i \in 1..((Len(json) - 1) \div 4) |->
     [text |-> json[4 * (i - 1) + 3].str,
      color |-> [form |-> json[4 * (i - 1) + 4].form, v |-> json[4 * (i - 1) + 4].str]]]

\* <html><head></head><body><p>a bc</p></body></html>: a paragraph whose
\* text holds white space.
DocSpace ==
  DocumentNode(<<Elem("html", <<Elem("head", <<>>),
                                Elem("body", <<Elem("p", <<Text(<<"a", " ", "b", "c">>)>>)>>)>>)>>)

InitExport ==
  /\ now = 0
  /\ orig = DocSpace
  /\ doc = orig
  /\ highlightIdCounter = 0
  /\ InitScript
  /\ stored = EmptyStorage
  /\ ops = 0
  /\ restores = 0
  /\ last = [op |-> "init", pre |-> orig, preCounter |-> 0, range |-> NoRange,
             color |-> NoColor, rec |-> NoRecord, el |-> <<>>, ok |-> FALSE,
             results |-> <<>>,
             before |-> [op |-> "init", pre |-> orig, ok |-> FALSE, el |-> <<>>,
                         rec |-> NoRecord]]

\* Highlights on the page, exported at any time.
SpecExport == InitExport /\ [][HighlightRange]_vars

\* ----------------------------------------------------------------- claims
\* The characters of the document between two boundary points, counted in
\* the text content of the whole document.
AbsPos(d, p, offset) ==
  LET Earlier(t) == t # p /\ PathLeq(t, p)
      before == SelectSeq(TextPathSeq(d), Earlier)
  IN Len(Flatten([i \in DOMAIN before |-> NodeAt(d, before[i]).data])) + offset

SelectedText(d, r) ==
  SubSeq(textContent(d), AbsPos(d, r.sp, r.so) + 1, AbsPos(d, r.ep, r.eo))

MarkerTexts(d) == { textContent(NodeAt(d, m)) : m \in MarkerPaths(d) }

\* C1: for every element and text node attached to the document,
\* findNodeByXPath(getXPath(node), document) is that node.
C1_XPathRoundTrip ==
  \A p \in ElementPaths(doc) \cup TextPaths(doc) :
     findNodeByXPath(getXPath(doc, p), doc) = p

\* C2: the record highlightRange returns for a non-collapsed range inside
\* one text node of a document without markers restores on a fresh copy of
\* that document: restoreHighlight returns true and creates exactly one
\* marker, whose text is record.text.
C2_RecordSurvivesFreshParse ==
  (/\ last.op = "highlightRange" /\ last.ok
   /\ last.range.sp = last.range.ep
   /\ MarkerPaths(last.pre) = {})
  => LET r == restoreHighlight(last.pre, 0, last.rec)
     IN /\ r.ok
        /\ Cardinality(MarkerPaths(r.doc)) = 1
        /\ MarkerTexts(r.doc) = {last.rec.text}

\* C3: after a reload of the unchanged page, the startup pass restores
\* every record that saveHighlights stored.
C3_SavedHighlightsRestoreOnReload ==
  last.op = "reload" => \A i \in DOMAIN last.results : last.results[i]

\* The text the record's location holds in document d matches record.text.
TextMatches(d, rec) ==
  LET p == findNodeByXPath(rec.xpath, d)
  IN /\ p # NoNode
     /\ NodeAt(d, p).kind = "text"
     /\ rec.offset >= 0 /\ rec.length >= 0
     /\ rec.offset + rec.length <= Len(NodeAt(d, p).data)
     /\ SubSeq(NodeAt(d, p).data, rec.offset + 1, rec.offset + rec.length) = rec.text

\* C4: restoreHighlight returns true and adds a marker exactly when the
\* path resolves to a text node whose characters [offset, offset+length)
\* equal record.text; otherwise it returns false and adds no marker.
C4_RestoreIffTextMatches ==
  last.op = "restoreHighlight"
  => /\ last.ok <=> TextMatches(last.pre, last.rec)
     /\ last.ok => Cardinality(MarkerPaths(doc)) = Cardinality(MarkerPaths(last.pre)) + 1
     /\ ~TextMatches(last.pre, last.rec) => doc = last.pre

\* The record's path resolves to a text node of d that is shorter than
\* offset + length.
OutOfBounds(d, rec) ==
  LET p == findNodeByXPath(rec.xpath, d)
  IN /\ p # NoNode
     /\ NodeAt(d, p).kind = "text"
     /\ rec.offset + rec.length > Len(NodeAt(d, p).data)

\* C5: restoreHighlight on a record whose path resolves to a text node with
\* offset + length beyond the node's length returns false and leaves the
\* document unchanged.
C5_RestoreBoundsSafety ==
  (last.op = "restoreHighlight" /\ OutOfBounds(last.pre, last.rec))
  => ~last.ok /\ doc = last.pre /\ highlightIdCounter = last.preCounter

C5_Witness ==
  /\ last.op = "restoreHighlight" /\ OutOfBounds(last.pre, last.rec)
  /\ ~last.ok /\ last.rec.offset < Len(NodeAt(last.pre, findNodeByXPath(last.rec.xpath, last.pre)).data)

\* removeHighlightElement has just removed the marker that the preceding,
\* successful highlightRange created.
RemovedOwnMarker ==
  /\ last.op = "removeHighlightElement"
  /\ last.before.op = "highlightRange" /\ last.before.ok
  /\ last.el = last.before.el

\* C6: after a successful highlightRange followed by removeHighlightElement
\* on the marker it created, the text content of the marker's parent is
\* what it was before the highlight.
C6_TextPreservation ==
  RemovedOwnMarker
  => textContent(NodeAt(doc, ParentOf(last.el)))
       = textContent(NodeAt(last.before.pre, ParentOf(last.el)))

C6_Witness ==
  /\ RemovedOwnMarker
  /\ MarkerPaths(doc) = {}
  /\ textContent(NodeAt(doc, ParentOf(last.el))) = Alphabet

\* C7: from any reachable document, clearAll twice gives the document that
\* clearAll once gives; after the clearAll operation a further clearAll
\* changes nothing.
ClearAllFixes(d) == clearAll(d) = d

C8_CollapsedRangeRejected ==
  (last.op = "highlightRange" /\ collapsed(last.range))
  => /\ ~last.ok /\ last.rec = NoRecord
     /\ doc = last.pre
     /\ highlightIdCounter = last.preCounter

C8_Witness ==
  /\ last.op = "highlightRange" /\ collapsed(last.range)
  /\ ~last.ok /\ last.range.so > 0

\* A non-collapsed range inside one text node of a document without markers
\* has just been highlighted.
SingleNodeCase ==
  /\ last.op = "highlightRange"
  /\ ~collapsed(last.range)
  /\ last.range.sp = last.range.ep
  /\ MarkerPaths(last.pre) = {}

\* C9: highlightRange on such a range succeeds and the document then holds
\* exactly one marker, whose text is exactly the selected text.
C9_SingleNodeHighlight ==
  SingleNodeCase
  => /\ last.ok
     /\ Cardinality(MarkerPaths(doc)) = 1
     /\ MarkerTexts(doc) = {SelectedText(last.pre, last.range)}

C9_Witness ==
  /\ SingleNodeCase /\ last.ok
  /\ last.range.so > 0
  /\ last.range.eo < Len(NodeAt(last.pre, last.range.sp).data)
  /\ MarkerTexts(doc) = {<<"b">>}

\* C10: the record of a successful highlightRange(range, color) has the
\* range's text from before the mutation, the color argument, the range's
\* start offset and the number of characters of the text.
RecordHolds(rec, text, color, offset) ==
  /\ rec.text = text
  /\ rec.color = color
  /\ rec.offset = offset
  /\ rec.length = Len(text)

C10_RecordContents ==
  (last.op = "highlightRange" /\ last.ok)
  => RecordHolds(last.rec, SelectedText(last.pre, last.range), last.color, last.range.so)

C10_Witness ==
  /\ last.op = "highlightRange" /\ last.ok
  /\ last.rec.text = <<"b", "c">>
  /\ last.rec.offset = 1 /\ last.rec.length = 2
  /\ last.rec.color = COLORS[5]

\* A non-collapsed range whose boundary Text nodes lie in two different
\* elements that are children of one parent has just been highlighted.
SiblingElementsCase ==
  /\ last.op = "highlightRange"
  /\ ~collapsed(last.range)
  /\ ParentOf(last.range.sp) # ParentOf(last.range.ep)
  /\ Len(last.range.sp) = Len(last.range.ep)
  /\ ParentOf(ParentOf(last.range.sp)) = ParentOf(ParentOf(last.range.ep))

\* The wrapper of the latest highlightRange is one new marker that starts
\* where the range started and holds the selected text.
OneNewMarkerAtStart ==
  /\ Cardinality(MarkerPaths(doc)) = Cardinality(MarkerPaths(last.pre)) + 1
  /\ NodeAt(doc, last.el).hl
  /\ NodeAt(doc, last.el).hid = last.preCounter
  /\ AbsPos(doc, last.el, 0) = AbsPos(last.pre, last.range.sp, last.range.so)
  /\ textContent(NodeAt(doc, last.el)) = SelectedText(last.pre, last.range)

\* C11: highlightRange on a non-collapsed range whose start and end lie in
\* text nodes of different sibling elements returns a record, and the
\* document then holds one new marker, at the range's start position, whose
\* text is the whole selected text.
C11_MultiNodeFallback ==
  SiblingElementsCase => last.ok /\ OneNewMarkerAtStart

\* C12: no two markers attached to the document carry the same
\* data-highlight-id, and every identifier in the document was handed out
\* before the current value of the counter.
C12_MarkerIdsUnique ==
  /\ \A m1, m2 \in MarkerPaths(doc) :
        m1 # m2 => NodeAt(doc, m1).hid # NodeAt(doc, m2).hid
  /\ \A m \in MarkerPaths(doc) : NodeAt(doc, m).hid < highlightIdCounter

\* The Text nodes of d inside the element at path m.
TextBelow(d, m) == { t \in TextPaths(d) : IsPrefix(m, t) }

\* The first of a set of paths in document order, NoNode when it is empty.
FirstOf(paths) ==
  IF paths = {} THEN NoNode ELSE CHOOSE t \in paths : \A u \in paths : PathLeq(t, u)

\* rec is the record of marker el of d whose first Text node is first: the
\* marker's text, offset 0, the length of the text and the path of first.
RecordOfMarker(d, rec, text, first) ==
  /\ rec.text = text
  /\ rec.offset = 0
  /\ rec.length = Len(text)
  /\ first # NoNode => rec.xpath = getXPath(d, first)

\* recs lists the markers ms of d in document order: the record of marker
\* m stands at the number of markers up to m.
ExportShapeOf(d, recs, ms) ==
  /\ Len(recs) = Cardinality(ms)
  /\ \A m \in ms :
        RecordOfMarker(d, recs[Cardinality({ q \in ms : PathLeq(q, m) })],
                       textContent(NodeAt(d, m)), FirstOf(TextBelow(d, m)))

ExportShape(d, recs) == ExportShapeOf(d, recs, MarkerPaths(d))

\* C13: getAllHighlights returns one record per marker attached to the
\* document, in document order, each with the marker's text, offset 0, the
\* length of that text and the path of the marker's first descendant text
\* node; the empty list when there is no marker.
C13_GetAllHighlightsShape == ExportShape(doc, getAllHighlights(doc))

TwoRecords(recs) ==
  /\ Len(recs) = 2
  /\ recs[1].text = <<"a">>
  /\ recs[2].text = <<"c">>

C13_Witness == TwoRecords(getAllHighlights(doc))

\* The two hexadecimal digits of a component 0..255.
TwoDigits(n) == <<n \div 16, n % 16>>

\* Every record of recs reports the color of its marker in hex form: an
\* rgb(r, g, b) style as the six digits of r, g and b, a hex style as it is.
ColorsNormalized(d, recs) ==
  \A m \in MarkerPaths(d) :
     LET i == Cardinality({ q \in MarkerPaths(d) : PathLeq(q, m) })
         c == NodeAt(d, m).color
     IN /\ c.form = "rgb"
             => recs[i].color
                  = HexColor(TwoDigits(c.v[1]) \o TwoDigits(c.v[2]) \o TwoDigits(c.v[3]))
        /\ c.form = "hex" => recs[i].color = c

\* C14: getAllHighlights reports a marker whose style is rgb(r, g, b) as
\* '#' and two hexadecimal digits for each of r, g, b, reports a hex style
\* unchanged, and so reports a marker just created with a palette color
\* with that color.
C14_ColorNormalization ==
  /\ ColorsNormalized(doc, getAllHighlights(doc))
  /\ (last.op = "markWithColor" /\ last.ok)
       => \A i \in DOMAIN getAllHighlights(doc) : getAllHighlights(doc)[i].color = last.color

C14_Witness ==
  /\ last.op = "setBackgroundColor"
  /\ last.color = RgbColor(0, 5, 15)
  /\ getAllHighlights(doc)[1].color = HexColor(<<0, 0, 0, 5, 0, 15>>)

\* The records of batch whose result is TRUE, in order.
Restored(batch, results) ==
  LET Ok(i) == results[i]
      idx == SelectSeq([i \in 1..Len(batch) |-> i], Ok)
  IN [j \in 1..Len(idx) |-> batch[idx[j]]]

\* The pass gave every record of the batch one result, TRUE or FALSE, and
\* the failed records had no effect: the pass over the restored records
\* alone restores them all and ends in document d with the same counter.
BatchCompleted(batch, results, d, counter, kept) ==
  /\ Len(results) = Len(batch)
  /\ \A i \in DOMAIN results : results[i] \in BOOLEAN
  /\ restorePass(orig, 0, kept, 1, <<>>)
       = [doc |-> d, counter |-> counter, results |-> [j \in 1..Len(kept) |-> TRUE]]

\* C15: the startup pass attempts every loaded record once, each record
\* ends restored or failed, and a failing record (malformed, empty or
\* unresolvable path, out-of-range or negative offset) neither stops the
\* pass nor affects the records after it.
C15_BatchRestoreNeverAborts ==
  last.op = "reload"
  => BatchCompleted(storageLoad(stored, Href), last.results, doc, highlightIdCounter,
                    Restored(storageLoad(stored, Href), last.results))

C15_Witness ==
  /\ last.op = "reload"
  /\ last.results = <<FALSE, TRUE>>
  /\ storageLoad(stored, Href)[1].offset = -1
  /\ MarkerPaths(doc) # {}

C17_StoragePageIsolation ==
  last.op \in {"save", "clear"}
  => \A u \in Urls :
        normalized(u) # normalized(last.url)
          => storageLoad(stored, u) = storageLoad(last.pre, u)

\* Two successful highlights made one after the other on a page without
\* markers, each inside one text node, the second outside the first marker.
TwoHighlightsCase ==
  /\ last.op = "highlightRange" /\ last.ok
  /\ last.before.op = "highlightRange" /\ last.before.ok
  /\ MarkerPaths(last.before.pre) = {}
  /\ Cardinality(MarkerPaths(last.pre)) = 1
  /\ last.range.sp = last.range.ep
  /\ ~NodeAt(last.pre, ParentOf(last.range.sp)).hl

\* What was highlighted, in document order: the text and color of the first
\* highlight and of the second.
ExpectedExport ==
  LET first == [text |-> last.before.rec.text, color |-> last.before.rec.color]
      second == [text |-> SelectedText(last.pre, last.range), color |-> last.color]
  IN IF PathLeq(last.range.sp, last.before.el) THEN <<second, first>>
     ELSE <<first, second>>

OrdinalAmongSameType(d, p) ==
  LET n == NodeAt(d, p)
      sibs == NodeAt(d, ParentOf(p)).kids
  IN Cardinality({ i \in 1..IndexOf(p) :
                     /\ sibs[i].kind = n.kind
                     /\ n.kind = "elem" => sibs[i].tag = n.tag })

\* The index in the last step of a path.
LastIndex(xpath) == xpath[Len(xpath)].idx

\* C19: in the path getXPath gives for an element or a text node, the index
\* of the node's step is its 1-based position among the same-tag element
\* children, or among the text children, of its parent.
C19_PathStepOrdinals ==
  \A p \in ElementPaths(doc) \cup TextPaths(doc) :
     LastIndex(getXPath(doc, p)) = OrdinalAmongSameType(doc, p)

\* The Text nodes of d that hold no character.
EmptyTextNodes(d) == { t \in TextPaths(d) : NodeAt(d, t).data = <<>> }

\* C20: after a successful highlightRange, restoreHighlight,
\* removeHighlightElement or clearAll the document holds no text node of
\* length zero.
C20_NoEmptyTextNodes ==
  (/\ last.op \in {"highlightRange", "restoreHighlight", "removeHighlightElement", "clearAll"}
   /\ last.ok)
  => EmptyTextNodes(doc) = {}

\* removeHighlightElement has just been called on a marker of the document.
RemovedMarker ==
  /\ last.op = "removeHighlightElement"
  /\ NodeAt(last.pre, last.el).hl

\* The children ks hold no empty Text node and no two Text nodes in a row.
NoSplitText(ks) ==
  /\ \A i \in DOMAIN ks : ks[i].kind = "text" => ks[i].data # <<>>
  /\ \A i \in 1..(Len(ks) - 1) : ~(ks[i].kind = "text" /\ ks[i + 1].kind = "text")

\* The element children of ks, each by its tag and data-highlight-id.
ElementKids(ks) ==
  LET IsElement(n) == n.kind = "elem"
      es == SelectSeq(ks, IsElement)
  IN [i \in DOMAIN es |-> <<es[i].tag, es[i].hid>>]

\* The parent holds the text it held, the element children it held but for
\* the marker at position k, and no empty or split text.
MarkerBecameText(before, after, k) ==
  /\ textContent(after) = textContent(before)
  /\ ElementKids(after.kids)
       = ElementKids(SubSeq(before.kids, 1, k - 1))
           \o ElementKids(SubSeq(before.kids, k + 1, Len(before.kids)))
  /\ NoSplitText(after.kids)

\* The marker removed was made by the preceding highlightRange in a
\* paragraph that held one Text node (the wrapper of a range that leaves
\* the Text node goes into an ancestor of the paragraph, so the range lay
\* inside that Text node).
RemovedFromSingleText ==
  /\ RemovedOwnMarker
  /\ Len(NodeAt(last.before.pre, ParentOf(last.el)).kids) = 1
  /\ NodeAt(last.before.pre, ParentOf(last.el)).kids[1].kind = "text"

BothThrew ==
  /\ last.op = "highlightRange"
  /\ ~collapsed(last.range)
  /\ ~last.ok

\* C22: whenever highlightRange returns null because the in-place wrap and
\* the fallback both threw, the document holds no new marker and its text
\* content is what it was before the call.
C22_FailureAtomicity ==
  BothThrew
  => /\ Cardinality(MarkerPaths(doc)) = Cardinality(MarkerPaths(last.pre))
     /\ textContent(doc) = textContent(last.pre)

\* C23: the xpath in the record of a successful highlightRange, in-place
\* wrap and fallback alike, is the path getXPath gives for the range's
\* start container in the document as it was before the call.
C23_PreMutationAnchoring ==
  (last.op = "highlightRange" /\ last.ok)
  => last.rec.xpath = getXPath(last.pre, last.range.sp)

C23_Witness ==
  /\ last.op = "highlightRange" /\ last.ok
  /\ surroundThrows(last.range)
  /\ MarkerPaths(last.pre) # {}
  /\ last.range.so > 0
  /\ last.rec.xpath = getXPath(last.pre, last.range.sp)

\* The path is malformed or empty (evaluate throws), leads to no node, or
\* leads to a node that is no Text node.
NoTextTarget(d, e) ==
  \/ ~e.ok
  \/ e.nodes = {}
  \/ NodeAt(d, singleNodeValue(e)).kind # "text"

\* C24: for every record whose xpath is malformed, empty, resolves to no
\* node or resolves to an element or to the document root, restoreHighlight
\* returns false and leaves the document and the marker counter unchanged.
C24_ResolutionFailureSafe ==
  (last.op = "restoreHighlight" /\ NoTextTarget(last.pre, evaluate(last.rec.xpath, last.pre)))
  => /\ ~last.ok
     /\ doc = last.pre
     /\ highlightIdCounter = last.preCounter

C24_Witness ==
  /\ last.op = "restoreHighlight"
  /\ last.rec.xpath = <<Slash>>
  /\ MarkerPaths(last.pre) # {}
  /\ ~last.ok /\ doc = last.pre

\* A marker of d lies inside another marker, and two markers of d carry
\* one identifier (a marker split by a later overlapping highlight).
NestedAndSplit(d) ==
  /\ \E m1, m2 \in MarkerPaths(d) : m1 # m2 /\ IsPrefix(m1, m2)
  /\ \E m1, m2 \in MarkerPaths(d) : m1 # m2 /\ NodeAt(d, m1).hid = NodeAt(d, m2).hid

\* C25: after clearAll the document holds no element with the marker class,
\* whatever highlightRange and restoreHighlight calls came before, nested
\* and split markers included.
C25_ClearAllPostcondition ==
  last.op = "clearAll" => MarkerPaths(doc) = {}

C25_Witness ==
  /\ last.op = "clearAll"
  /\ NestedAndSplit(last.pre)
  /\ MarkerPaths(doc) = {}

\* The toolbar has made and saved two highlights, one after the other, on
\* a page without markers, the second inside one text node outside the
\* first marker, which is still in the document.
SavedAgain ==
  /\ last.op = "onColorSelected" /\ last.ok
  /\ last.before.op = "onColorSelected" /\ last.before.ok
  /\ MarkerPaths(last.before.pre) = {}
  /\ Cardinality(MarkerPaths(last.pre)) = 1
  /\ last.range.sp = last.range.ep
  /\ ~NodeAt(last.pre, ParentOf(last.range.sp)).hl

\* The list holds a record with this text and this timestamp.
HoldsStamped(highlights, text, timestamp) ==
  \E i \in DOMAIN highlights :
     highlights[i].text = text /\ highlights[i].timestamp = timestamp

\* C26: the timestamp stored for a highlight is the time the highlight was
\* created: after the content script saves again for a later highlight,
\* the stored record of the earlier highlight still carries the timestamp
\* of its creation.
C26_TimestampIsCreationTime ==
  SavedAgain
  => HoldsStamped(storageLoad(stored, Href), last.before.rec.text,
                  last.before.rec.timestamp)

\* C27: after any sequence of highlightRange, restoreHighlight,
\* removeHighlightElement and clearAll calls, successful or not, the text
\* content of the document is what it was before the first call.
C27_DocumentTextInvariant == textContent(doc) = textContent(orig)

\* The list holds a record with the location and text of h.
HoldsRecord(highlights, h) ==
  \E j \in DOMAIN highlights :
     /\ highlights[j].xpath = h.xpath
     /\ highlights[j].text = h.text
     /\ highlights[j].offset = h.offset
     /\ highlights[j].length = h.length

\* Every record of loaded that the pass failed to restore is in saved.
FailedKept(loaded, results, saved) ==
  \A i \in DOMAIN results : ~results[i] => HoldsRecord(saved, loaded[i])

\* C28: a stored record that failed to restore in the startup pass is still
\* in storage after the user then creates or deletes a highlight on the
\* page.
C28_FailedRecordsNotLost ==
  [][ (/\ last.op = "reload"
       /\ \/ last'.op = "onColorSelected" /\ last'.ok
          \/ last'.op = "deleteBtn.onclick")
      => FailedKept(storageLoad(stored, Href), last.results, storageLoad(stored', Href)) ]_vars

\* Document d holds a marker with the identifier, color and text of n.
StillAttached(d, n) ==
  \E m \in MarkerPaths(d) :
     /\ NodeAt(d, m).hid = n.hid
     /\ NodeAt(d, m).color = n.color
     /\ textContent(NodeAt(d, m)) = textContent(n)

\* C29: removeHighlightElement on one marker removes only that marker:
\* every other marker that was attached before the call, one nested inside
\* the removed marker included, is still attached with the same identifier,
\* color and text.
C29_SingleRemovalLocal ==
  RemovedMarker
  => \A m \in MarkerPaths(last.pre) \ {last.el} : StillAttached(doc, NodeAt(last.pre, m))


\* The latest event called highlighter.highlightRange: the callers are
\* toolbar.onColorSelected and highlightSelection (src/src/content.ts:133,
\* 247); none of them changes isHighlightingEnabled after the call.
CalledHighlightRange ==
  last.op \in {"onColorSelected", "keydown.H", "keydown.digit"} /\ last.range # NoRange

\* C30: over every ordering of the content script's events, highlightRange
\* is called only while isHighlightingEnabled is true, the toolbar is shown
\* only while isHighlightingEnabled is true, and the exit overlay is
\* visible exactly when isHighlightingEnabled is true.
C30_HighlightingOnlyInMode ==
  /\ CalledHighlightRange => isHighlightingEnabled
  /\ toolbarIsVisible => isHighlightingEnabled
  /\ ~exitOverlayHidden <=> isHighlightingEnabled

\* The toolbar was shown for a selection and a color pill highlighted it.
C30_Witness ==
  /\ last.op = "onColorSelected"
  /\ last.before.op = "mouseup"
  /\ CalledHighlightRange
  /\ last.ok
  /\ isHighlightingEnabled
  /\ ~exitOverlayHidden

====
